---- MODULE Spec2Model ----
(***************************************************************************)
(* State-machine model of the DeepScribe story server (server.js): the     *)
(* stories and chapters tables, the credential helpers, and the request    *)
(* handlers of the /deepscribe/api routes.  Every request runs in a        *)
(* request slot; a slot's position (pc) advances at each asynchronous      *)
(* boundary of the handler (a database call or a generation call), so      *)
(* handlers of different slots interleave exactly at those boundaries.     *)
(***************************************************************************)
EXTENDS Integers, Sequences, FiniteSets, TLC

(* ------------------------------ bounds --------------------------------- *)

MaxStories == 1
MaxChapters == 2
MaxClock == 1
MaxSeeded == 5

(* Request slots: the requests that may be in flight at the same time.     *)
Procs == {"r1", "r2"}

StoryIds == 1..MaxStories
\* an id uuidv4() never gave to a story
UnknownId == MaxStories + 1
RequestIds == StoryIds \cup {UnknownId}

(* --------------------------- input domains ----------------------------- *)

Absent == "<absent>"
Passwords == {Absent, "abc", "abcd", "wxyz"}
Salts == {"s1"}
Titles == {"title"}
Genres == {"genre"}
Null == "<null>"
\* choices[0].message.content of the content call: a text, or the empty string
GeneratedContents == {"text", ""}
GeneratedSummaries == {"sum"}
\* secrets and salts for the workload that exercises the credential helpers
CodecSecrets == {"abc", "abcd", "abcD", "abcde", "wxyz"}
CodecSalts == {"s1", "s2"}
Placeholder == "Chapter summary unavailable"
MinPasswordLength == 4
ContextLimit == 3

(* ----------------------------- credentials ----------------------------- *)

NullHash == << >>
Colon == [k |-> ":", a |-> "", b |-> ""]
SaltHex(salt) == [k |-> "salt", a |-> salt, b |-> ""]

\* variant: the key is derived from the salt alone
pbkdf2Sync_SaltOnly(password, saltHex) == [k |-> "key", a |-> "", b |-> saltHex.a]

pbkdf2Sync(password, saltHex) == [k |-> "key", a |-> password, b |-> saltHex.a]

hashPassword(password, salt) ==
    <<SaltHex(salt)>> \o <<Colon>> \o <<pbkdf2Sync(password, SaltHex(salt))>>

RECURSIVE split(_)
split(str) ==
    IF str = << >> THEN << << >> >>
    ELSE LET rest == split(Tail(str)) IN
         IF Head(str) = Colon THEN << << >> >> \o rest
         ELSE << <<Head(str)>> \o Head(rest) >> \o Tail(rest)

Falsy(password) == password = Absent \/ password = ""

verifyThrows(password, hashedPassword) ==
    hashedPassword # NullHash /\ password = Absent

\* variant: without a stored hash every secret passes
verifyPassword_NullPasses(password, hashedPassword) ==
    IF hashedPassword = NullHash THEN TRUE
    ELSE LET parts == split(hashedPassword)
             salt == parts[1]
             hash == parts[2]
             verifyHash == <<pbkdf2Sync(password, salt[1])>>
         IN hash = verifyHash

\* variant: any secret passes once a hash is stored
verifyPassword_HashPresent(password, hashedPassword) ==
    hashedPassword # NullHash

verifyPassword(password, hashedPassword) ==
    IF hashedPassword = NullHash THEN FALSE
    ELSE LET parts == split(hashedPassword)
             salt == parts[1]
             hash == parts[2]
             verifyHash == <<pbkdf2Sync(password, salt[1])>>
         IN hash = verifyHash

\* variant: the length test off by one
ValidNewPassword_Min3(password) ==
    ~(Falsy(password) \/ Len(password) < MinPasswordLength - 1)

\* !password || password.length < 4, negated
ValidNewPassword(password) ==
    ~(Falsy(password) \/ Len(password) < MinPasswordLength)


(* ------------------------------- state --------------------------------- *)

VARIABLES
    stories,        \* rows of table stories
    chapters,       \* rows of table chapters
    now,            \* the database clock (CURRENT_TIMESTAMP)
    nextStoryId,    \* stands for uuidv4() of the next story
    nextChapterId,  \* stands for uuidv4() of the next chapter
    pc,             \* per request slot: the pending asynchronous call
    req,            \* per request slot: the request (route, :id, body.password)
    resp,           \* per request slot: the response sent for req
    story,          \* per request slot: the story row the handler loaded
    snap,           \* per request slot: the chapter rows the handler loaded
    gen,            \* per request slot: content and summary generated so far
    calls,          \* per request slot: the requests sent to the generation API
    caught,         \* per request slot: the error the handler's catch block got
    mode            \* the workload: "concurrent", or one request at a time
                    \* ("sequential"; "seeded": on a story that has chapters;
                    \* "codec": password requests on one story)

vars == <<stories, chapters, now, nextStoryId, nextChapterId,
          pc, req, resp, story, snap, gen, calls, caught, mode>>

db == <<stories, chapters>>
ids == <<nextStoryId, nextChapterId>>
locals == <<story, snap, gen, calls, caught>>

(* ------------------------------- tables -------------------------------- *)

NoRow == [id |-> UnknownId]
NoGen == [content |-> Null, summary |-> Null]
NoError == "none"
\* the errors that reach the catch block of the chapters route
SqliteError == "SQLITE_ERROR"
TypeError == "TypeError [ERR_INVALID_ARG_TYPE]"
ContentError == "Failed to generate story content"
NoReq == [op |-> "none", id |-> UnknownId, password |-> Absent]
NoResp == [status |-> 0, body |-> [none |-> TRUE]]

\* INSERT INTO stories (id, title, genre): the other columns take their defaults
NewStoryRow(storyId, title, genre) ==
    [id |-> storyId, title |-> title, genre |-> genre,
     password_hash |-> NullHash, is_protected |-> 0,
     created_at |-> now, updated_at |-> now, status |-> "active"]

\* variant: a hash that is there already is kept
ProtectRow_KeepFirst(row, passwordHash) ==
    IF row.password_hash # NullHash
    THEN [row EXCEPT !.updated_at = now]
    ELSE [row EXCEPT !.password_hash = passwordHash, !.is_protected = 1,
                     !.updated_at = now]

\* UPDATE stories SET password_hash = ?, is_protected = 1, updated_at = CURRENT_TIMESTAMP
ProtectRow(row, passwordHash) ==
    [row EXCEPT !.password_hash = passwordHash, !.is_protected = 1,
                !.updated_at = now]

\* variant: the UPDATE clears the flag and leaves the hash
UnprotectRow_KeepHash(row) ==
    [row EXCEPT !.is_protected = 0, !.updated_at = now]

\* UPDATE stories SET password_hash = NULL, is_protected = 0, updated_at = CURRENT_TIMESTAMP
UnprotectRow(row) ==
    [row EXCEPT !.password_hash = NullHash, !.is_protected = 0,
                !.updated_at = now]

\* UPDATE stories SET updated_at = CURRENT_TIMESTAMP
TouchRow(row) == [row EXCEPT !.updated_at = now]

\* UPDATE stories SET password_hash = ?, is_protected = 1, ... WHERE id = ?
ProtectWhereId(rows, storyId, passwordHash) ==
    {IF r.id = storyId THEN ProtectRow(r, passwordHash) ELSE r : r \in rows}

\* UPDATE stories SET password_hash = NULL, is_protected = 0, ... WHERE id = ?
UnprotectWhereId(rows, storyId) ==
    {IF r.id = storyId THEN UnprotectRow(r) ELSE r : r \in rows}

\* UPDATE stories SET updated_at = CURRENT_TIMESTAMP WHERE id = ?
TouchWhereId(rows, storyId) ==
    {IF r.id = storyId THEN TouchRow(r) ELSE r : r \in rows}

\* variant: the changes test of the UPDATE left out
Changes_One(rows, storyId) == 1

\* this.changes after UPDATE stories ... WHERE id = ?
Changes(rows, storyId) == Cardinality({r \in rows : r.id = storyId})

\* SELECT * FROM stories WHERE id = ?  (undefined when there is no such row)
SelectStory(storyId) ==
    IF \E r \in stories : r.id = storyId
    THEN CHOOSE r \in stories : r.id = storyId
    ELSE NoRow

\* SELECT * FROM chapters WHERE story_id = ?
ChaptersOf(storyId) == {c \in chapters : c.story_id = storyId}

NewChapterRow(chapterId, storyId, chapterNumber, content, summary) ==
    [id |-> chapterId, story_id |-> storyId, chapter_number |-> chapterNumber,
     content |-> content, summary |-> summary]

\* variant: a UNIQUE (story_id, chapter_number) index with INSERT OR IGNORE
InsertChapter_Unique(rows, row) ==
    IF \E c \in rows : c.story_id = row.story_id /\ c.chapter_number = row.chapter_number
    THEN rows
    ELSE rows \cup {row}

\* variant: INSERT OR REPLACE on a UNIQUE (story_id, chapter_number) index
InsertChapter_Replace(rows, row) ==
    {c \in rows : ~(c.story_id = row.story_id /\ c.chapter_number = row.chapter_number)}
        \cup {row}

\* INSERT INTO chapters: the table has no UNIQUE constraint on
\* (story_id, chapter_number) and foreign keys are not enforced
InsertChapter(rows, row) == rows \cup {row}

\* All orders in which ORDER BY may return the rows S, sorted by the key
\* key[r] of each row r: ties come in any order
RECURSIVE Orderings(_, _)
Orderings(S, key) ==
    IF S = {} THEN {<< >>}
    ELSE UNION {{<<x>> \o f : f \in Orderings(S \ {x}, key)} :
                   x \in {y \in S : \A z \in S : key[y] <= key[z]}}

\* variant: the ORDER BY clause left out
SelectChapters_Unordered(storyId) ==
    Orderings(ChaptersOf(storyId), [c \in ChaptersOf(storyId) |-> 0])

\* SELECT * FROM chapters WHERE story_id = ? ORDER BY chapter_number
SelectChaptersAsc(storyId) ==
    Orderings(ChaptersOf(storyId), [c \in ChaptersOf(storyId) |-> c.chapter_number])

Limit(rows, n) == SubSeq(rows, 1, IF Len(rows) < n THEN Len(rows) ELSE n)

\* variant: the three chapters with the lowest numbers
SelectRecentChapters_Oldest(storyId) ==
    {Limit(f, ContextLimit) :
        f \in Orderings(ChaptersOf(storyId),
                        [c \in ChaptersOf(storyId) |-> c.chapter_number])}

\* SELECT * FROM chapters WHERE story_id = ? ORDER BY chapter_number DESC LIMIT 3
SelectRecentChapters(storyId) ==
    {Limit(f, ContextLimit) :
        f \in Orderings(ChaptersOf(storyId),
                        [c \in ChaptersOf(storyId) |-> 0 - c.chapter_number])}

(* --------------------------- chapter sequencer ------------------------- *)

Max(S) == CHOOSE m \in S : \A x \in S : x <= m

\* variant: the + 1 left out
chapterNumber_NoIncrement(loaded) ==
    IF Len(loaded) > 0
    THEN Max({loaded[i].chapter_number : i \in 1..Len(loaded)})
    ELSE 1

\* variant: numbering from 0
chapterNumber_FromZero(loaded) ==
    IF Len(loaded) > 0
    THEN Max({loaded[i].chapter_number : i \in 1..Len(loaded)}) + 1
    ELSE 0

\* chapters.length > 0 ? Math.max(...chapters.map(c => c.chapter_number)) + 1 : 1
chapterNumber(loaded) ==
    IF Len(loaded) > 0
    THEN Max({loaded[i].chapter_number : i \in 1..Len(loaded)}) + 1
    ELSE 1

(* ------------------------------ responses ------------------------------ *)

Json(status, body) == [status |-> status, body |-> body]

DatabaseError == Json(500, [error |-> "Database error"])
StoryNotFound == Json(404, [error |-> "Story not found"])
InvalidPassword == Json(401, [error |-> "Invalid password"])
PasswordRequired400 == Json(400, [error |-> "Password is required"])
PasswordTooShort == Json(400, [error |-> "Password must be at least 4 characters long"])
GenerateFailed == Json(500, [error |-> "Failed to generate chapter"])
ConnectionLost == Json(-1, [error |-> "connection closed"])

\* variant: the 403 body carries the whole row
ProtectedBody_WholeRow(row) ==
    [error |-> "Story is password protected",
     requiresPassword |-> TRUE,
     story |-> row]

\* the 403 body of GET /stories/:id for a protected story
ProtectedBody(row) ==
    [error |-> "Story is password protected",
     requiresPassword |-> TRUE,
     story |-> [id |-> row.id, title |-> row.title, genre |-> row.genre,
                is_protected |-> row.is_protected,
                created_at |-> row.created_at, updated_at |-> row.updated_at]]

\* { ...story, chapters }
FullBody(row, chs) ==
    [id |-> row.id, title |-> row.title, genre |-> row.genre,
     password_hash |-> row.password_hash, is_protected |-> row.is_protected,
     created_at |-> row.created_at, updated_at |-> row.updated_at,
     status |-> row.status, chapters |-> chs]

\* variant: the hash is not taken out of the row
VerifiedBody_WithHash(row, chs) ==
    [id |-> row.id, title |-> row.title, genre |-> row.genre,
     password_hash |-> row.password_hash, is_protected |-> row.is_protected,
     created_at |-> row.created_at, updated_at |-> row.updated_at,
     status |-> row.status, chapters |-> chs]

\* const { password_hash, ...storyData } = story; { ...storyData, chapters }
VerifiedBody(row, chs) ==
    [id |-> row.id, title |-> row.title, genre |-> row.genre,
     is_protected |-> row.is_protected,
     created_at |-> row.created_at, updated_at |-> row.updated_at,
     status |-> row.status, chapters |-> chs]

\* SELECT id, title, genre, is_protected, created_at, updated_at, status
ListedRow(row) ==
    [id |-> row.id, title |-> row.title, genre |-> row.genre,
     is_protected |-> row.is_protected,
     created_at |-> row.created_at, updated_at |-> row.updated_at,
     status |-> row.status]

ChapterBody(row) ==
    [id |-> row.id, story_id |-> row.story_id,
     chapter_number |-> row.chapter_number,
     content |-> row.content, summary |-> row.summary]

(* ------------------------------- context ------------------------------- *)

Reverse(s) == [i \in 1..Len(s) |-> s[Len(s) + 1 - i]]

\* chapter.summary || chapter.content.substring(0, 200), then "..."
ContextLine(c) ==
    [chapter_number |-> c.chapter_number,
     text |-> IF c.summary # "" /\ c.summary # Null
              THEN [from |-> "summary", of |-> c.summary]
              ELSE [from |-> "content200", of |-> c.content]]

\* variant: the loaded rows are not turned around
BuildContext_NoReverse(row, loaded) ==
    [header |-> <<row.title, row.genre>>,
     lines |-> [i \in 1..Len(loaded) |-> ContextLine(loaded[i])]]

\* the context string: the header, then one line per loaded chapter, taken
\* from the array after chapters.reverse()
BuildContext(row, loaded) ==
    [header |-> <<row.title, row.genre>>,
     lines |-> [i \in 1..Len(loaded) |-> ContextLine(Reverse(loaded)[i])]]

(* ------------------------------- requests ------------------------------ *)

Idle(p) == pc[p] = "idle"

\* A slot whose response is out is closed before anything else happens:
\* closing touches nothing but the slot, so every interleaving of handler
\* steps is still there, and a response is seen together with the state it
\* was sent in.
Settled == \A q \in Procs : pc[q] # "done"

\* the handler of slot p resumes at the callback or await named label
At(p, label) == Settled /\ pc[p] = label

\* sequential operation: a request arrives only when no other is in flight
Quiet == \A q \in Procs : Idle(q)

\* A request arrives on a free slot
Begin(p, op, storyId, password) ==
    /\ At(p, "idle")
    /\ mode # "concurrent" => Quiet
    /\ UNCHANGED mode
    /\ req' = [req EXCEPT ![p] = [op |-> op, id |-> storyId, password |-> password]]

Reply(p, r) ==
    /\ resp' = [resp EXCEPT ![p] = r]
    /\ pc' = [pc EXCEPT ![p] = "done"]

Await(p, label) ==
    /\ resp' = [resp EXCEPT ![p] = NoResp]
    /\ pc' = [pc EXCEPT ![p] = label]

\* no request has arrived yet
IdleSlots ==
    /\ pc = [p \in Procs |-> "idle"]
    /\ req = [p \in Procs |-> NoReq]
    /\ resp = [p \in Procs |-> NoResp]
    /\ story = [p \in Procs |-> NoRow]
    /\ snap = [p \in Procs |-> << >>]
    /\ gen = [p \in Procs |-> NoGen]
    /\ calls = [p \in Procs |-> << >>]
    /\ caught = [p \in Procs |-> NoError]

Fresh ==
    /\ stories = {}
    /\ chapters = {}
    /\ now = 0
    /\ nextStoryId = 1
    /\ nextChapterId = 1
    /\ IdleSlots

Init == Fresh /\ mode = "concurrent"

InitSeq == Fresh /\ mode = "sequential"

\* the chapter numbers a story may hold when a request arrives, lowest first:
\* numbers repeat after concurrent continuations, and leave gaps once a
\* continuation persists after a deletion has emptied the story
SeedNumbers ==
    UNION {{f \in [1..n -> 1..MaxSeeded] : \A i \in 1..(n - 1) : f[i] <= f[i + 1]} :
              n \in 0..MaxSeeded}

\* rows persisted by earlier continuations (their ids are not handed out again)
SeedChapters(numbers) ==
    {NewChapterRow(0 - i, 1, numbers[i], "text", "sum") : i \in 1..Len(numbers)}

\* the server with one unprotected story that holds chapters already
InitSeeded ==
    /\ now = 0
    /\ stories = {NewStoryRow(1, "title", "genre")}
    /\ \E numbers \in SeedNumbers : chapters = SeedChapters(numbers)
    /\ nextStoryId = 2
    /\ nextChapterId = 1
    /\ IdleSlots
    /\ mode = "seeded"

\* time passes
Tick ==
    /\ Settled
    /\ now < MaxClock
    /\ now' = now + 1
    /\ UNCHANGED <<db, ids, pc, req, resp, locals, mode>>

\* POST /deepscribe/api/stories
CreateStory(p, title, genre) ==
    /\ Begin(p, "create", UnknownId, Absent)
    /\ nextStoryId <= MaxStories
    /\ nextStoryId' = nextStoryId + 1
    /\ \/ /\ stories' = stories \cup {NewStoryRow(nextStoryId, title, genre)}
          /\ Reply(p, Json(200, [id |-> nextStoryId, title |-> title,
                                  genre |-> genre, is_protected |-> 0]))
       \/ /\ UNCHANGED stories
          /\ Reply(p, DatabaseError)
    /\ UNCHANGED <<chapters, now, nextChapterId, locals>>

\* SELECT ... FROM stories ORDER BY updated_at DESC
SelectStoriesByUpdated ==
    Orderings(stories, [r \in stories |-> 0 - r.updated_at])

\* GET /deepscribe/api/stories
ListStories(p) ==
    /\ Begin(p, "list", UnknownId, Absent)
    /\ \/ \E rows \in SelectStoriesByUpdated :
             Reply(p, Json(200, [rows |-> [i \in 1..Len(rows) |-> ListedRow(rows[i])]]))
       \/ Reply(p, DatabaseError)
    /\ UNCHANGED <<db, now, ids, locals>>


\* what the continuation still reads of its story row after the access check
Heading(row) == [id |-> row.id, title |-> row.title, genre |-> row.genre]

Keep(p, row) == story' = [story EXCEPT ![p] = row]
Forget(p) == story' = [story EXCEPT ![p] = NoRow]

\* GET /deepscribe/api/stories/:id, up to the callback of db.get
GetStory(p, storyId) ==
    /\ Begin(p, "get", storyId, Absent)
    /\ LET row == SelectStory(storyId) IN
       \/ Reply(p, DatabaseError) /\ UNCHANGED story
       \/ row = NoRow /\ Reply(p, StoryNotFound) /\ UNCHANGED story
       \/ /\ row # NoRow
          /\ IF row.is_protected # 0
             THEN Reply(p, Json(403, ProtectedBody(row))) /\ UNCHANGED story
             ELSE Await(p, "get_chapters") /\ Keep(p, row)
    /\ UNCHANGED <<db, now, ids, snap, gen, calls, caught>>

\* ... and the callback of its db.all
GetStoryChapters(p) ==
    /\ At(p, "get_chapters")
    /\ \/ \E chs \in SelectChaptersAsc(req[p].id) :
             Reply(p, Json(200, FullBody(story[p], chs)))
       \/ Reply(p, DatabaseError)
    /\ Forget(p)
    /\ UNCHANGED <<db, now, ids, req, snap, gen, calls, caught, mode>>

\* POST /deepscribe/api/stories/:id/verify, up to the callback of db.get
VerifyStory(p, storyId, password) ==
    /\ Begin(p, "verify", storyId, password)
    /\ LET row == SelectStory(storyId) IN
       IF Falsy(password)
       THEN Reply(p, PasswordRequired400) /\ UNCHANGED story
       ELSE \/ Reply(p, DatabaseError) /\ UNCHANGED story
            \/ row = NoRow /\ Reply(p, StoryNotFound) /\ UNCHANGED story
            \/ /\ row # NoRow
               /\ IF row.is_protected = 0 \/ ~verifyPassword(password, row.password_hash)
                  THEN Reply(p, InvalidPassword) /\ UNCHANGED story
                  ELSE Await(p, "verify_chapters") /\ Keep(p, row)
    /\ UNCHANGED <<db, now, ids, snap, gen, calls, caught>>

\* ... and the callback of its db.all
VerifyStoryChapters(p) ==
    /\ At(p, "verify_chapters")
    /\ \/ \E chs \in SelectChaptersAsc(req[p].id) :
             Reply(p, Json(200, VerifiedBody(story[p], chs)))
       \/ Reply(p, DatabaseError)
    /\ Forget(p)
    /\ UNCHANGED <<db, now, ids, req, snap, gen, calls, caught, mode>>

\* POST /deepscribe/api/stories/:id/password
SetPassword(p, storyId, password, salt) ==
    /\ Begin(p, "setPassword", storyId, password)
    /\ IF ~ValidNewPassword(password)
       THEN Reply(p, PasswordTooShort) /\ UNCHANGED stories
       ELSE LET passwordHash == hashPassword(password, salt) IN
            \/ Reply(p, DatabaseError) /\ UNCHANGED stories
            \/ /\ stories' = ProtectWhereId(stories, storyId, passwordHash)
               /\ IF Changes(stories, storyId) = 0
                  THEN Reply(p, StoryNotFound)
                  ELSE Reply(p, Json(200, [message |-> "Password set successfully"]))
    /\ UNCHANGED <<chapters, now, ids, locals>>

\* a TypeError thrown inside a database callback is caught by nothing: the
\* process ends, and with it every request in flight gets no response
Crash(p) ==
    /\ pc' = [q \in Procs |-> IF pc[q] = "idle" /\ q # p THEN "idle" ELSE "done"]
    /\ resp' = [q \in Procs |->
                   IF q = p \/ (pc[q] # "idle" /\ resp[q] = NoResp)
                   THEN ConnectionLost ELSE resp[q]]
    /\ story' = [q \in Procs |-> NoRow]
    /\ snap' = [q \in Procs |-> << >>]
    /\ gen' = [q \in Procs |-> NoGen]
    /\ calls' = [q \in Procs |-> << >>]
    /\ caught' = [q \in Procs |-> NoError]

\* DELETE /deepscribe/api/stories/:id/password, up to the callback of db.get
RemovePassword(p, storyId, password) ==
    /\ Begin(p, "removePassword", storyId, password)
    /\ LET row == SelectStory(storyId) IN
       \/ Reply(p, DatabaseError) /\ UNCHANGED locals
       \/ row = NoRow /\ Reply(p, StoryNotFound) /\ UNCHANGED locals
       \/ /\ row # NoRow
          /\ IF verifyThrows(password, row.password_hash)
             THEN Crash(p)
             ELSE IF ~verifyPassword(password, row.password_hash)
             THEN Reply(p, InvalidPassword) /\ UNCHANGED locals
             ELSE Await(p, "remove_update") /\ UNCHANGED locals
    /\ UNCHANGED <<db, now, ids>>

\* ... and the callback of its db.run
RemovePasswordUpdate(p) ==
    /\ At(p, "remove_update")
    /\ \/ /\ stories' = UnprotectWhereId(stories, req[p].id)
          /\ Reply(p, Json(200, [message |-> "Password protection removed"]))
       \/ Reply(p, DatabaseError) /\ UNCHANGED stories
    /\ UNCHANGED <<chapters, now, ids, req, locals, mode>>


(* ------------------------- generation collaborator --------------------- *)

\* what axios.post to the completions API comes back with: a rejection (no
\* connection, an error status, a body without choices[0].message), or a
\* body whose choices[0].message.content is the text
ApiFailure == [failed |-> TRUE, content |-> Null]
ApiReply(text) == [failed |-> FALSE, content |-> text]
\* the concurrent workload draws one generated text, the others the empty one too
ContentTexts == IF mode = "concurrent" THEN GeneratedContents \ {""} ELSE GeneratedContents
ContentResponses == {ApiFailure} \cup {ApiReply(t) : t \in ContentTexts}
SummaryResponses == {ApiFailure} \cup {ApiReply(t) : t \in GeneratedSummaries}

\* a request to the API: who sent it, with what, and how it came back
ContentCall(context) ==
    [fn |-> "generateStoryContent", arg |-> context, outcome |-> "pending"]
SummaryCall(content) ==
    [fn |-> "generateChapterSummary", arg |-> content, outcome |-> "pending"]

\* the request sent last comes back
Returned(sent, response) ==
    [sent EXCEPT ![Len(sent)].outcome = IF response.failed THEN "failed" ELSE "ok"]

\* generateStoryContent: the catch block rethrows
generateStoryContentThrows(response) == response.failed

\* ... and otherwise returns response.data.choices[0].message.content as it is
generateStoryContent(response) == response.content

\* variant: the catch block returns nothing
generateChapterSummary_Null(response) ==
    IF response.failed THEN Null ELSE response.content

\* generateChapterSummary: the catch block returns the placeholder
generateChapterSummary(response) ==
    IF response.failed THEN Placeholder ELSE response.content

(* ----------------------------- continuation ---------------------------- *)

\* continuations that hold a place in the chapters table not yet taken
Continuing == {q \in Procs : pc[q] \in {"continue_chapters", "continue_content",
                                        "continue_summary", "continue_insert"}}

\* variant: the catch block logs the error and sends nothing
Catch_LogOnly(p, error) ==
    /\ resp' = [resp EXCEPT ![p] = NoResp]
    /\ pc' = [pc EXCEPT ![p] = "done"]
    /\ caught' = [caught EXCEPT ![p] = error]

\* catch (error) { res.status(500).json({ error: 'Failed to generate chapter' }) }
Catch(p, error) ==
    /\ Reply(p, GenerateFailed)
    /\ caught' = [caught EXCEPT ![p] = error]

\* POST /deepscribe/api/stories/:id/chapters, up to the first await's result
\* and the access check that follows it
ContinueStory(p, storyId, password) ==
    /\ Begin(p, "continue", storyId, password)
    /\ LET row == SelectStory(storyId) IN
       \/ Catch(p, SqliteError) /\ UNCHANGED story
       \/ row = NoRow /\ Reply(p, StoryNotFound) /\ UNCHANGED <<story, caught>>
       \/ /\ row # NoRow
          /\ IF row.is_protected # 0 /\ verifyThrows(password, row.password_hash)
             THEN Catch(p, TypeError) /\ UNCHANGED story
             ELSE IF row.is_protected # 0 /\ ~verifyPassword(password, row.password_hash)
             THEN Reply(p, InvalidPassword) /\ UNCHANGED <<story, caught>>
             ELSE /\ nextChapterId + Cardinality(Continuing) <= MaxChapters
                  /\ Await(p, "continue_chapters")
                  /\ Keep(p, Heading(row))
                  /\ UNCHANGED caught
    /\ UNCHANGED <<db, now, ids, snap, gen, calls>>

\* ... the second await: the three most recent chapters; chapters.reverse()
\* turns the loaded array around in place while the context is built, and
\* the context goes out in the content call
ContinueLoadChapters(p) ==
    /\ At(p, "continue_chapters")
    /\ \/ /\ \E rows \in SelectRecentChapters(req[p].id) :
                /\ snap' = [snap EXCEPT ![p] = IF Len(rows) > 0 THEN Reverse(rows) ELSE rows]
                /\ calls' = [calls EXCEPT ![p] =
                                Append(@, ContentCall(BuildContext(story[p], rows)))]
          /\ Await(p, "continue_content")
          /\ UNCHANGED <<story, caught>>
       \/ /\ Catch(p, SqliteError)
          /\ Forget(p)
          /\ UNCHANGED <<snap, calls>>
    /\ UNCHANGED <<db, now, ids, req, gen, mode>>

\* variant: a content call that failed is sent once more
ContinueContent_Retry(p) ==
    /\ At(p, "continue_content")
    /\ \E response \in ContentResponses :
          IF generateStoryContentThrows(response)
          THEN IF Len(calls[p]) = 1
               THEN /\ calls' = [calls EXCEPT ![p] =
                                    Append(Returned(@, response), ContentCall(@[1].arg))]
                    /\ Await(p, "continue_content")
                    /\ UNCHANGED <<story, snap, gen, caught>>
               ELSE /\ Catch(p, ContentError)
                    /\ Forget(p)
                    /\ snap' = [snap EXCEPT ![p] = << >>]
                    /\ calls' = [calls EXCEPT ![p] = Returned(@, response)]
                    /\ UNCHANGED gen
          ELSE /\ gen' = [gen EXCEPT ![p].content = generateStoryContent(response)]
               /\ calls' = [calls EXCEPT ![p] =
                               Append(Returned(@, response),
                                      SummaryCall(generateStoryContent(response)))]
               /\ Await(p, "continue_summary")
               /\ UNCHANGED <<story, snap, caught>>
    /\ UNCHANGED <<db, now, ids, req, mode>>

\* ... await generateStoryContent(prompt, context) comes back, and
\* generateChapterSummary(content) sends its request
ContinueContent(p) ==
    /\ At(p, "continue_content")
    /\ \E response \in ContentResponses :
          IF generateStoryContentThrows(response)
          THEN /\ Catch(p, ContentError)
               /\ Forget(p)
               /\ snap' = [snap EXCEPT ![p] = << >>]
               /\ calls' = [calls EXCEPT ![p] = Returned(@, response)]
               /\ UNCHANGED gen
          ELSE /\ gen' = [gen EXCEPT ![p].content = generateStoryContent(response)]
               /\ calls' = [calls EXCEPT ![p] =
                               Append(Returned(@, response),
                                      SummaryCall(generateStoryContent(response)))]
               /\ Await(p, "continue_summary")
               /\ UNCHANGED <<story, snap, caught>>
    /\ UNCHANGED <<db, now, ids, req, mode>>

\* ... await generateChapterSummary(content) comes back; it never throws
ContinueSummary(p) ==
    /\ At(p, "continue_summary")
    /\ \E response \in SummaryResponses :
          /\ gen' = [gen EXCEPT ![p].summary = generateChapterSummary(response)]
          /\ calls' = [calls EXCEPT ![p] = Returned(@, response)]
    /\ Await(p, "continue_insert")
    /\ UNCHANGED <<db, now, ids, req, story, snap, caught, mode>>

\* variant: the access check is made again, on the row as it is at the INSERT
ContinueInsert_Recheck(p) ==
    /\ At(p, "continue_insert")
    /\ LET row == NewChapterRow(nextChapterId, req[p].id, chapterNumber(snap[p]),
                                gen[p].content, gen[p].summary)
           current == SelectStory(req[p].id) IN
       IF /\ current # NoRow
          /\ current.is_protected # 0
          /\ (req[p].password = Absent
                \/ ~verifyPassword(req[p].password, current.password_hash))
       THEN /\ Reply(p, InvalidPassword)
            /\ UNCHANGED <<chapters, nextChapterId>>
       ELSE \/ /\ chapters' = InsertChapter(chapters, row)
               /\ nextChapterId' = nextChapterId + 1
               /\ resp' = [resp EXCEPT ![p] = Json(200, ChapterBody(row))]
               /\ pc' = [pc EXCEPT ![p] = "continue_touch"]
            \/ /\ Reply(p, DatabaseError)
               /\ UNCHANGED <<chapters, nextChapterId>>
    /\ Forget(p)
    /\ snap' = [snap EXCEPT ![p] = << >>]
    /\ gen' = [gen EXCEPT ![p] = NoGen]
    /\ UNCHANGED <<stories, now, nextStoryId, req, calls, caught, mode>>

\* variant: the chapter number is taken from the table as it is at the INSERT
ContinueInsert_Reread(p) ==
    /\ At(p, "continue_insert")
    /\ LET own == ChaptersOf(req[p].id)
           number == IF own = {} THEN 1
                     ELSE Max({c.chapter_number : c \in own}) + 1
           row == NewChapterRow(nextChapterId, req[p].id, number,
                                gen[p].content, gen[p].summary) IN
       \/ /\ chapters' = InsertChapter(chapters, row)
          /\ nextChapterId' = nextChapterId + 1
          /\ resp' = [resp EXCEPT ![p] = Json(200, ChapterBody(row))]
          /\ pc' = [pc EXCEPT ![p] = "continue_touch"]
       \/ /\ Reply(p, DatabaseError)
          /\ UNCHANGED <<chapters, nextChapterId>>
    /\ Forget(p)
    /\ snap' = [snap EXCEPT ![p] = << >>]
    /\ gen' = [gen EXCEPT ![p] = NoGen]
    /\ UNCHANGED <<stories, now, nextStoryId, req, calls, caught, mode>>

\* variant: the timestamp UPDATE is queued before the error test
ContinueInsert_TouchAnyway(p) ==
    /\ At(p, "continue_insert")
    /\ LET row == NewChapterRow(nextChapterId, req[p].id, chapterNumber(snap[p]),
                                gen[p].content, gen[p].summary) IN
       \/ /\ chapters' = InsertChapter(chapters, row)
          /\ nextChapterId' = nextChapterId + 1
          /\ resp' = [resp EXCEPT ![p] = Json(200, ChapterBody(row))]
          /\ pc' = [pc EXCEPT ![p] = "continue_touch"]
       \/ /\ resp' = [resp EXCEPT ![p] = DatabaseError]
          /\ pc' = [pc EXCEPT ![p] = "continue_touch"]
          /\ UNCHANGED <<chapters, nextChapterId>>
    /\ Forget(p)
    /\ snap' = [snap EXCEPT ![p] = << >>]
    /\ gen' = [gen EXCEPT ![p] = NoGen]
    /\ UNCHANGED <<stories, now, nextStoryId, req, calls, caught, mode>>

\* ... the callback of the INSERT: on success it queues the timestamp UPDATE
\* and sends the chapter at once
ContinueInsert(p) ==
    /\ At(p, "continue_insert")
    /\ LET row == NewChapterRow(nextChapterId, req[p].id, chapterNumber(snap[p]),
                                gen[p].content, gen[p].summary) IN
       \/ /\ chapters' = InsertChapter(chapters, row)
          /\ nextChapterId' = nextChapterId + 1
          /\ resp' = [resp EXCEPT ![p] = Json(200, ChapterBody(row))]
          /\ pc' = [pc EXCEPT ![p] = "continue_touch"]
       \/ /\ Reply(p, DatabaseError)
          /\ UNCHANGED <<chapters, nextChapterId>>
    /\ Forget(p)
    /\ snap' = [snap EXCEPT ![p] = << >>]
    /\ gen' = [gen EXCEPT ![p] = NoGen]
    /\ UNCHANGED <<stories, now, nextStoryId, req, calls, caught, mode>>

\* ... the queued UPDATE of updated_at runs; it has no callback
ContinueTouch(p) ==
    /\ At(p, "continue_touch")
    /\ \/ stories' = TouchWhereId(stories, req[p].id)
       \/ UNCHANGED stories
    /\ pc' = [pc EXCEPT ![p] = "done"]
    /\ UNCHANGED <<chapters, now, ids, req, resp, locals, mode>>

\* variant: the route turns a protected story away
DeleteStory_Gated(p, storyId) ==
    /\ Begin(p, "delete", storyId, Absent)
    /\ IF SelectStory(storyId) # NoRow /\ SelectStory(storyId).is_protected # 0
       THEN Reply(p, InvalidPassword) /\ UNCHANGED chapters
       ELSE \/ /\ chapters' = chapters \ ChaptersOf(storyId)
               /\ Await(p, "delete_story")
            \/ /\ Reply(p, DatabaseError)
               /\ UNCHANGED chapters
    /\ UNCHANGED <<stories, now, ids, locals>>

\* DELETE /deepscribe/api/stories/:id, up to the callback of the first db.run
DeleteStory(p, storyId) ==
    /\ Begin(p, "delete", storyId, Absent)
    /\ \/ /\ chapters' = chapters \ ChaptersOf(storyId)
          /\ Await(p, "delete_story")
       \/ /\ Reply(p, DatabaseError)
          /\ UNCHANGED chapters
    /\ UNCHANGED <<stories, now, ids, locals>>

\* ... and the callback of the second
DeleteStoryRow(p) ==
    /\ At(p, "delete_story")
    /\ \/ /\ stories' = {r \in stories : r.id # req[p].id}
          /\ Reply(p, Json(200, [message |-> "Story deleted successfully"]))
       \/ /\ Reply(p, DatabaseError)
          /\ UNCHANGED stories
    /\ UNCHANGED <<chapters, now, ids, req, locals, mode>>

\* the response has gone out and the handler has nothing left to run
Close(p) ==
    /\ pc[p] = "done"
    /\ pc' = [pc EXCEPT ![p] = "idle"]
    /\ req' = [req EXCEPT ![p] = NoReq]
    /\ resp' = [resp EXCEPT ![p] = NoResp]
    /\ calls' = [calls EXCEPT ![p] = << >>]
    /\ caught' = [caught EXCEPT ![p] = NoError]
    /\ UNCHANGED <<db, now, ids, story, snap, gen, mode>>

(* ---------------------------- specifications --------------------------- *)

Arrive(p) ==
    \/ \E t \in Titles, g \in Genres : CreateStory(p, t, g)
    \/ ListStories(p)
    \/ \E i \in RequestIds : GetStory(p, i)
    \/ \E i \in RequestIds, w \in Passwords : VerifyStory(p, i, w)
    \/ \E i \in RequestIds, w \in Passwords, s \in Salts : SetPassword(p, i, w, s)
    \/ \E i \in RequestIds, w \in Passwords : RemovePassword(p, i, w)
    \/ \E i \in RequestIds, w \in Passwords : ContinueStory(p, i, w)
    \/ \E i \in RequestIds : DeleteStory(p, i)

Step(p) ==
    \/ GetStoryChapters(p)
    \/ VerifyStoryChapters(p)
    \/ RemovePasswordUpdate(p)
    \/ ContinueLoadChapters(p)
    \/ ContinueContent(p)
    \/ ContinueSummary(p)
    \/ ContinueInsert(p)
    \/ ContinueTouch(p)
    \/ DeleteStoryRow(p)

Next == Tick \/ \E p \in Procs : Arrive(p) \/ Step(p) \/ Close(p)

Spec == Init /\ [][Next]_vars

\* the same server under sequential operation
SpecSeq == InitSeq /\ [][Next]_vars

\* sequential operation where every database call and every call of the
\* generation API comes back, so that the callback or the code after the
\* await runs, and every response that is out is flushed
SpecLive ==
    /\ InitSeq
    /\ [][Next]_vars
    /\ \A p \in Procs : WF_vars(Step(p)) /\ WF_vars(Close(p))

\* continuations, one at a time, of a story that holds chapters already
NextSeeded ==
    \E p \in Procs :
        \/ \E i \in StoryIds : ContinueStory(p, i, Absent)
        \/ ContinueLoadChapters(p)
        \/ ContinueContent(p)
        \/ ContinueSummary(p)
        \/ ContinueInsert(p)
        \/ ContinueTouch(p)
        \/ Close(p)

SpecSeeded == InitSeeded /\ [][NextSeeded]_vars

\* the server with one story, not protected, without chapters
InitCodec ==
    /\ now = 0
    /\ stories = {NewStoryRow(1, "title", "genre")}
    /\ chapters = {}
    /\ nextStoryId = 2
    /\ nextChapterId = 1
    /\ IdleSlots
    /\ mode = "codec"

\* the requests that hash and verify secrets, one at a time
NextCodec ==
    \E p \in Procs :
        \/ \E i \in StoryIds, w \in CodecSecrets, s \in CodecSalts : SetPassword(p, i, w, s)
        \/ \E i \in StoryIds, w \in CodecSecrets \cup {Absent} : VerifyStory(p, i, w)
        \/ VerifyStoryChapters(p)
        \/ \E i \in StoryIds, w \in CodecSecrets \cup {Absent} : RemovePassword(p, i, w)
        \/ RemovePasswordUpdate(p)
        \/ Close(p)

SpecCodec == InitCodec /\ [][NextCodec]_vars


(* ------------------------------ properties ----------------------------- *)

Numbers(chs) == {c.chapter_number : c \in chs}

\* the hash was made from this secret
MadeFrom(password, hashedPassword) ==
    \E salt \in Salts : hashedPassword = hashPassword(password, salt)

Protected(row) == row # NoRow /\ row.is_protected # 0

\* slot p takes a request for this route in the step
Arrives(p, op) == pc[p] = "idle" /\ req'[p].op = op

\* slot p sent its response in the state, for a request of this route
Answered(p, op) == pc[p] = "done" /\ req[p].op = op

MetadataFields == {"id", "title", "genre", "is_protected", "created_at", "updated_at"}

(* C1: under sequential operation, when the chapters a story had before a  *)
(* successful continuation are numbered exactly 1..N (N >= 0), the chapter *)
(* persisted and returned is numbered N+1.                                 *)
C1_NextAfterN ==
    \A p \in Procs :
        pc[p] = "continue_touch" =>
            LET new == resp[p].body
                prior == {c \in ChaptersOf(req[p].id) : c.id # new.id}
                N == Cardinality(prior)
            IN  Numbers(prior) = 1..N =>
                    /\ resp[p].status = 200
                    /\ new.chapter_number = N + 1
                    /\ \E c \in chapters : /\ c.id = new.id
                                           /\ c.story_id = req[p].id
                                           /\ c.chapter_number = N + 1

C1_Witness ==
    \E p \in Procs :
        /\ mode = "sequential"
        /\ pc[p] = "continue_touch"
        /\ resp[p].body.chapter_number = 2
        /\ Numbers(ChaptersOf(req[p].id)) = {1, 2}

(* C2: under sequential operation the chapter numbers of every story are   *)
(* pairwise distinct and are exactly 1..k, k the number of its chapters,   *)
(* in every state, so also after failed and denied continuations.          *)
C2_NumbersDense ==
    \A i \in StoryIds :
        Numbers(ChaptersOf(i)) = 1..Cardinality(ChaptersOf(i))

C2_Witness ==
    \E p \in Procs :
        /\ mode = "sequential"
        /\ Answered(p, "continue")
        /\ resp[p] \in {GenerateFailed, InvalidPassword}
        /\ Numbers(ChaptersOf(req[p].id)) = {1}

(* C3: a continuation that persists adds a row with the number computed    *)
(* from the chapters it loaded, whatever rows the table holds by then, and *)
(* every other continuation of the same story that loaded the same         *)
(* chapters still holds the same number; so two chapters of one story with *)
(* the same number is a reachable state.                                   *)
C3_BothPersist ==
    [][\A p \in Procs :
          (pc[p] = "continue_insert" /\ pc'[p] = "continue_touch") =>
              LET n == chapterNumber(snap[p]) IN
              /\ chapters \subseteq chapters'
              /\ \E c \in chapters' \ chapters :
                    c.story_id = req[p].id /\ c.chapter_number = n
              /\ \A q \in Procs \ {p} :
                    (/\ pc[q] \in {"continue_content", "continue_summary",
                                   "continue_insert"}
                     /\ req[q].id = req[p].id
                     /\ snap[q] = snap[p])
                    => pc'[q] = pc[q] /\ chapterNumber(snap'[q]) = n]_vars

C3_Witness ==
    \E c1, c2 \in chapters :
        /\ c1.id # c2.id
        /\ c1.story_id = c2.story_id
        /\ c1.chapter_number = c2.chapter_number
        /\ SelectStory(c1.story_id) # NoRow

(* C4: in every state, every story row has its protection flag set if and  *)
(* only if it holds a credential hash.                                     *)
C4_FlagIffHash ==
    \A r \in stories : (r.is_protected # 0) <=> (r.password_hash # NullHash)

C4_Witness ==
    \E p, q \in Procs :
        /\ p # q
        /\ Answered(p, "removePassword")
        /\ resp[p].status = 200
        /\ pc[q] = "remove_update"
        /\ \E r \in stories : /\ r.id = req[p].id
                               /\ r.is_protected = 0
                               /\ r.password_hash = NullHash

(* C5: a story goes from protected to unprotected only in the UPDATE of a  *)
(* removePassword request whose secret verifies against the hash the story *)
(* holds when that hash is cleared.                                        *)
C5_ClearedByCurrentSecret ==
    [][\A r \in stories :
          (/\ r.is_protected # 0
           /\ \E r2 \in stories' : r2.id = r.id /\ r2.is_protected = 0)
          => \E p \in Procs :
                /\ pc[p] = "remove_update"
                /\ pc'[p] = "done"
                /\ req[p].id = r.id
                /\ verifyPassword(req[p].password, r.password_hash)]_vars

(* C6: removePassword on a protected story with a secret the stored hash   *)
(* was not made from answers 401 Invalid password, unless the read of the  *)
(* story fails, and leaves the stories table as it was.                    *)
C6_WrongSecretKeepsProtection ==
    [][\A p \in Procs :
          LET row == SelectStory(req'[p].id) IN
          (/\ Arrives(p, "removePassword")
           /\ req'[p].password # Absent
           /\ Protected(row)
           /\ ~MadeFrom(req'[p].password, row.password_hash))
          => /\ pc'[p] = "done"
             /\ resp'[p] \in {InvalidPassword, DatabaseError}
             /\ stories' = stories]_vars

C6_Witness ==
    \E p \in Procs :
        /\ Answered(p, "removePassword")
        /\ resp[p] = InvalidPassword
        /\ req[p].password # Absent
        /\ Protected(SelectStory(req[p].id))
        /\ ~MadeFrom(req[p].password, SelectStory(req[p].id).password_hash)

(* C7: setPassword with no secret or one shorter than 4 characters answers  *)
(* 400 at once, with no database call and no story changed; with a secret  *)
(* of 4 or more characters on a story that exists it answers 200, unless   *)
(* the UPDATE fails, and the row then has its flag set and holds a hash    *)
(* made from that secret, against which the secret verifies.               *)
C7_SetPasswordPolicy ==
    [][\A p \in Procs :
          Arrives(p, "setPassword") =>
              LET secret == req'[p].password
                  before == SelectStory(req'[p].id)
              IN
              /\ pc'[p] = "done"
              /\ (secret = Absent \/ Len(secret) < 4) =>
                    /\ resp'[p] = PasswordTooShort
                    /\ stories' = stories
              /\ (secret # Absent /\ Len(secret) >= 4 /\ before # NoRow) =>
                    \/ resp'[p] = DatabaseError /\ stories' = stories
                    \/ /\ resp'[p].status = 200
                       /\ \E r \in stories' :
                             /\ r.id = before.id
                             /\ r.is_protected = 1
                             /\ MadeFrom(secret, r.password_hash)
                             /\ verifyPassword(secret, r.password_hash)
                             /\ stories' = (stories \ {before}) \cup {r}]_vars

C7_Witness ==
    \E p \in Procs :
        /\ Answered(p, "setPassword")
        /\ Len(req[p].password) = 4
        /\ resp[p].status = 200
        /\ Protected(SelectStory(req[p].id))
        /\ verifyPassword(req[p].password, SelectStory(req[p].id).password_hash)

(* C8: getStory on a protected story answers 403 with requiresPassword,     *)
(* unless the read of the story fails, and the body carries of the story   *)
(* only id, title, genre, protection flag and the two timestamps: no       *)
(* chapters, no content and no hash, whatever chapters the story has.      *)
C8_DeniedReadIsMetadataOnly ==
    [][\A p \in Procs :
          LET row == SelectStory(req'[p].id) IN
          (Arrives(p, "get") /\ Protected(row) /\ resp'[p] # DatabaseError) =>
              /\ pc'[p] = "done"
              /\ resp'[p].status = 403
              /\ DOMAIN resp'[p].body = {"error", "requiresPassword", "story"}
              /\ resp'[p].body.requiresPassword
              /\ DOMAIN resp'[p].body.story = MetadataFields
              /\ \A f \in MetadataFields : resp'[p].body.story[f] = row[f]]_vars

C8_Witness ==
    \E p \in Procs :
        /\ Answered(p, "get")
        /\ resp[p].status = 403
        /\ Cardinality(ChaptersOf(req[p].id)) = 2
        /\ "chapters" \notin DOMAIN resp[p].body
        /\ "password_hash" \notin DOMAIN resp[p].body.story

\* the values stored under a field name anywhere in a response body
Under(body, field) ==
    LET top == IF field \in DOMAIN body THEN {body[field]} ELSE {}
        inStory == IF "story" \in DOMAIN body /\ field \in DOMAIN body.story
                   THEN {body.story[field]} ELSE {}
        inRows == IF "rows" \in DOMAIN body
                  THEN {body.rows[i][field] :
                           i \in {j \in DOMAIN body.rows : field \in DOMAIN body.rows[j]}}
                  ELSE {}
        inChapters == IF "chapters" \in DOMAIN body
                      THEN {body.chapters[i][field] :
                               i \in {j \in DOMAIN body.chapters :
                                         field \in DOMAIN body.chapters[j]}}
                      ELSE {}
    IN top \cup inStory \cup inRows \cup inChapters

(* C9: no response to a list, a read, a read with secret or a continuation *)
(* holds a credential hash other than null, in any state.                  *)
C9_NoHashInResponses ==
    \A p \in Procs :
        req[p].op \in {"list", "get", "verify", "continue"} =>
            Under(resp[p].body, "password_hash") \subseteq {NullHash}

C9_Witness ==
    \E p \in Procs :
        /\ Answered(p, "verify")
        /\ resp[p].status = 200
        /\ Protected(SelectStory(req[p].id))
        /\ SelectStory(req[p].id).password_hash # NullHash
        /\ Under(resp[p].body, "password_hash") = {}

\* the response of slot p is complete: every chapter the table holds for the
\* story, in ascending order of chapter number
AllAscending(body, storyId, table) ==
    LET chs == body.chapters
        own == {c \in table : c.story_id = storyId}
    IN  /\ body.id = storyId
        /\ {chs[i] : i \in DOMAIN chs} = own
        /\ Len(chs) = Cardinality(own)
        /\ \A i \in 1..(Len(chs) - 1) :
              chs[i].chapter_number <= chs[i + 1].chapter_number

(* C10: a read with the secret the hash of a protected story was made from *)
(* goes on to load the chapters, unless the read of the story fails; the   *)
(* answer of a read that got that far is 200, or 500 when the read of the  *)
(* chapters fails; and a 200 answer carries the story with every chapter   *)
(* the story has, in ascending order of chapter number.                    *)
C10_VerifiedReadAllAscending ==
    [][\A p \in Procs :
          LET row == SelectStory(req'[p].id) IN
          /\ (/\ Arrives(p, "verify")
              /\ Protected(row)
              /\ MadeFrom(req'[p].password, row.password_hash))
             => \/ pc'[p] = "verify_chapters" /\ story'[p] = row
                \/ resp'[p] = DatabaseError
          /\ (/\ pc[p] = "verify_chapters"
              /\ pc'[p] = "done"
              /\ resp'[p] # ConnectionLost)
             => \/ resp'[p] = DatabaseError
                \/ /\ resp'[p].status = 200
                   /\ \A f \in DOMAIN story[p] \ {"password_hash"} :
                         resp'[p].body[f] = story[p][f]
          /\ (req'[p].op = "verify" /\ resp'[p].status = 200)
             => AllAscending(resp'[p].body, req'[p].id, chapters')]_vars

C10_Witness ==
    \E p \in Procs :
        /\ Answered(p, "verify")
        /\ resp[p].status = 200
        /\ Len(resp[p].body.chapters) = 2
        /\ resp[p].body.chapters[1].chapter_number = 1
        /\ resp[p].body.chapters[2].chapter_number = 2

\* slot p takes a request in the step
Arriving(p) == pc[p] = "idle" /\ pc'[p] # "idle"

\* the secret does not open the story: none came, or the hash was not made from it
Unfit(password, row) ==
    password = Absent \/ ~MadeFrom(password, row.password_hash)

(* C11: on a story that is not protected a read, a read with a secret and  *)
(* a continuation are granted whatever secret comes with the request: the  *)
(* reads go on to load the chapters and the continuation to load its       *)
(* context, unless the read of the story row fails.                        *)
C11_UnprotectedAlwaysGranted ==
    [][\A p \in Procs :
          LET row == SelectStory(req'[p].id) IN
          (Arriving(p) /\ row # NoRow /\ row.is_protected = 0) =>
              /\ req'[p].op = "get" =>
                    (pc'[p] = "get_chapters" \/ resp'[p] = DatabaseError)
              /\ (req'[p].op = "verify" /\ req'[p].password # Absent) =>
                    (pc'[p] = "verify_chapters" \/ resp'[p] = DatabaseError)
              /\ req'[p].op = "continue" =>
                    (pc'[p] = "continue_chapters" \/ caught'[p] = SqliteError)]_vars

(* C12: a continuation of a protected story whose secret is absent or was  *)
(* not the one the hash was made from is answered at once with an          *)
(* authorization status (401 or 403), unless the read of the story row     *)
(* fails; no request goes to the generation API, and no story and no       *)
(* chapter changes.                                                        *)
C12_DeniedBeforeGeneration ==
    [][\A p \in Procs :
          LET row == SelectStory(req'[p].id) IN
          (/\ Arrives(p, "continue")
           /\ Protected(row)
           /\ Unfit(req'[p].password, row))
          => /\ pc'[p] = "done"
             /\ (resp'[p].status \in {401, 403} \/ caught'[p] = SqliteError)
             /\ calls'[p] = << >>
             /\ chapters' = chapters
             /\ stories' = stories]_vars

(* C13: on a protected story a continuation without a secret is answered   *)
(* with an authorization status that is neither the answer to a wrong      *)
(* secret nor the answer to a failed generation, and a continuation with a *)
(* wrong secret is answered 401 Invalid password.                          *)
C13_RequiredAndInvalidDistinct ==
    [][\A p \in Procs :
          LET row == SelectStory(req'[p].id) IN
          (/\ Arrives(p, "continue")
           /\ Protected(row)
           /\ caught'[p] # SqliteError)
          => /\ req'[p].password = Absent =>
                   /\ resp'[p].status \in {401, 403}
                   /\ resp'[p] \notin {InvalidPassword, GenerateFailed}
             /\ (/\ req'[p].password # Absent
                 /\ ~MadeFrom(req'[p].password, row.password_hash))
                => resp'[p] = InvalidPassword]_vars

(* C14: a read, a read with a secret, a removePassword, a continuation and *)
(* a setPassword with a secret of 4 or more characters, for an id no story *)
(* row has, are answered 404 Story not found at once, unless the database  *)
(* call fails; no story and no chapter changes and no request goes to the  *)
(* generation API.                                                         *)
C14_UnknownIdNotFound ==
    [][\A p \in Procs :
          (/\ Arriving(p)
           /\ SelectStory(req'[p].id) = NoRow
           /\ req'[p].op \in {"get", "verify", "removePassword", "continue",
                               "setPassword"}
           /\ req'[p].op = "verify" => req'[p].password # Absent
           /\ req'[p].op = "setPassword" => ValidNewPassword(req'[p].password))
          => /\ pc'[p] = "done"
             /\ \/ resp'[p] = StoryNotFound
                \/ resp'[p] = DatabaseError
                \/ caught'[p] = SqliteError
             /\ stories' = stories
             /\ chapters' = chapters
             /\ calls'[p] = << >>]_vars

C14_Witness ==
    \E p \in Procs :
        /\ Answered(p, "setPassword")
        /\ ValidNewPassword(req[p].password)
        /\ resp[p] = StoryNotFound
        /\ SelectStory(req[p].id) = NoRow
        /\ \E r \in stories : r.is_protected = 0

\* a generated text a chapter can be made of
Usable(content) == content # Null /\ content # ""

(* C15: when the content call fails, or comes back with no usable content  *)
(* (the empty text), the continuation is answered 500 Failed to generate   *)
(* chapter there and then: no summary is requested, no chapter is          *)
(* persisted and no story row changes.                                     *)
C15_NoUsableContentFails ==
    [][\A p \in Procs :
          (/\ pc[p] = "continue_content"
           /\ pc'[p] # "continue_content"
           /\ resp'[p] # ConnectionLost
           /\ ~Usable(gen'[p].content))
          => /\ pc'[p] = "done"
             /\ resp'[p] = GenerateFailed
             /\ Len(calls'[p]) = 1
             /\ chapters' = chapters
             /\ stories' = stories]_vars

\* both requests of the continuation of slot p came back, the second failed
SummaryFailed(p) ==
    /\ Len(calls[p]) = 2
    /\ calls[p][1].outcome = "ok"
    /\ calls[p][2].outcome = "failed"

(* C16: a failed summary call is not escalated: the handler goes on to the *)
(* INSERT with the placeholder as summary; and a continuation whose        *)
(* content call succeeded and whose summary call failed persists and       *)
(* returns, unless the INSERT fails, one chapter with the generated        *)
(* content, the number computed from the loaded chapters and the summary   *)
(* "Chapter summary unavailable".                                          *)
C16_SummaryFailureSwallowed ==
    [][\A p \in Procs :
          /\ (pc[p] = "continue_summary" /\ SummaryFailed(p)')
             => /\ pc'[p] = "continue_insert"
                /\ caught'[p] = NoError
                /\ gen'[p] = [content |-> calls[p][2].arg, summary |-> Placeholder]
          /\ (pc[p] = "continue_insert" /\ pc'[p] # pc[p] /\ SummaryFailed(p)
              /\ resp'[p] # ConnectionLost)
             => \/ resp'[p] = DatabaseError /\ chapters' = chapters
                \/ /\ resp'[p].status = 200
                   /\ resp'[p].body.content = calls[p][2].arg
                   /\ resp'[p].body.chapter_number = chapterNumber(snap[p])
                   /\ resp'[p].body.summary = "Chapter summary unavailable"
                   /\ chapters' \ chapters =
                         {NewChapterRow(resp'[p].body.id, req[p].id,
                                        chapterNumber(snap[p]), calls[p][2].arg,
                                        "Chapter summary unavailable")}]_vars

C16_Witness ==
    \E p \in Procs :
        /\ pc[p] = "continue_touch"
        /\ SummaryFailed(p)
        /\ resp[p].body.summary = Placeholder
        /\ resp[p].body.content = "text"
        /\ resp[p].body.chapter_number = 2
        /\ \E c \in chapters : c.id = resp[p].body.id /\ c.summary = Placeholder

\* the requests slot p has sent: the content call, then, once that came
\* back with a text, the summary call, and none of them twice
CallsInOrder(p) ==
    LET sent == calls[p] IN
    /\ Len(sent) <= 2
    /\ Len(sent) >= 1 => sent[1].fn = "generateStoryContent"
    /\ Len(sent) = 2 => /\ sent[2].fn = "generateChapterSummary"
                        /\ sent[1].outcome = "ok"
    /\ (Len(sent) >= 1 /\ sent[1].outcome = "failed") => pc[p] \in {"done", "idle"}
    /\ (\E i \in 1..Len(sent) : sent[i].outcome = "pending")
          => pc[p] \in {"continue_content", "continue_summary"}

(* C17: a continuation sends at most two requests to the generation API:   *)
(* the content call first and once, the summary call once and only after   *)
(* the content call came back with a text; after a failed call nothing is  *)
(* sent again; and a chapter row is added only by a continuation whose two *)
(* calls have both come back.                                              *)
C17_TwoCallsThenPersist ==
    [][/\ \A p \in Procs : CallsInOrder(p)'
       /\ \A c \in chapters' \ chapters :
             \E p \in Procs :
                /\ pc[p] = "continue_insert"
                /\ req[p].id = c.story_id
                /\ Len(calls[p]) = 2
                /\ \A i \in 1..2 : calls[p][i].outcome # "pending"]_vars

C17_Witness ==
    \E p, q \in Procs :
        /\ pc[p] = "continue_touch"
        /\ resp[p].status = 200
        /\ Len(calls[p]) = 2
        /\ calls[p][2].outcome = "ok"
        /\ pc[q] = "done"
        /\ resp[q] = GenerateFailed
        /\ Len(calls[q]) = 1
        /\ calls[q][1].outcome = "failed"

\* slot p gets the chapters it asked for and sends the content call
Loads(p) == pc[p] = "continue_chapters" /\ pc'[p] = "continue_content"

(* C18: the context a continuation sends with its content call has the     *)
(* story's heading and one line per listed chapter; for a story with n     *)
(* chapters the listed chapters are min(3, n) different chapters of the    *)
(* story, no chapter left out has a higher number than a listed one, and   *)
(* the lines come in ascending order of chapter number: for chapters 1..5  *)
(* the lines are those of chapters 3, 4, 5, for no chapters there is none. *)
C18_ContextIsLastThreeAscending ==
    [][\A p \in Procs :
          Loads(p) =>
              LET own == ChaptersOf(req[p].id)
                  n == Cardinality(own)
                  context == calls'[p][1].arg
                  lines == context.lines
                  listed == snap'[p]
              IN
              /\ context.header = <<story[p].title, story[p].genre>>
              /\ Len(lines) = IF n < 3 THEN n ELSE 3
              /\ Len(listed) = Len(lines)
              /\ \A i \in 1..Len(lines) :
                    /\ listed[i] \in own
                    /\ lines[i] = ContextLine(listed[i])
                    /\ \A j \in 1..Len(lines) : i # j => listed[i] # listed[j]
                    /\ \A c \in own \ {listed[j] : j \in 1..Len(listed)} :
                          c.chapter_number <= listed[i].chapter_number
              /\ \A i \in 1..(Len(lines) - 1) :
                    lines[i].chapter_number <= lines[i + 1].chapter_number
              /\ (n = 5 /\ Numbers(own) = 1..5) =>
                    [i \in 1..3 |-> lines[i].chapter_number] = <<3, 4, 5>>
              /\ n = 0 => lines = << >>]_vars

C18_Witness ==
    \E p \in Procs :
        /\ pc[p] = "continue_content"
        /\ Numbers(ChaptersOf(req[p].id)) = 1..5
        /\ Cardinality(ChaptersOf(req[p].id)) = 5
        /\ Len(calls[p][1].arg.lines) = 3
        /\ calls[p][1].arg.lines[1].chapter_number = 3
        /\ calls[p][1].arg.lines[3].chapter_number = 5

(* C19: the number a continuation computes from the chapters it loaded is  *)
(* 1 when the story has no chapter at the time of the load and otherwise   *)
(* one more than the highest number among all chapters the story has then, *)
(* whatever the chapter set (repeated numbers, gaps, more than 3           *)
(* chapters); and that is the number of the chapter it persists and        *)
(* returns.                                                                *)
C19_NumberFromAllChapters ==
    [][\A p \in Procs :
          /\ Loads(p) =>
                chapterNumber(snap'[p]) =
                    IF ChaptersOf(req[p].id) = {} THEN 1
                    ELSE Max(Numbers(ChaptersOf(req[p].id))) + 1
          /\ (pc[p] = "continue_insert" /\ pc'[p] = "continue_touch") =>
                /\ resp'[p].body.chapter_number = chapterNumber(snap[p])
                /\ \E c \in chapters' \ chapters :
                      /\ c.id = resp'[p].body.id
                      /\ c.chapter_number = chapterNumber(snap[p])]_vars

C19_Witness ==
    \E p \in Procs :
        /\ pc[p] = "continue_touch"
        /\ LET prior == {c \in ChaptersOf(req[p].id) : c.id # resp[p].body.id} IN
           /\ Cardinality(prior) = 5
           /\ Cardinality(Numbers(prior)) < 5
           /\ Numbers(prior) # 1..Max(Numbers(prior))
           /\ resp[p].body.chapter_number = Max(Numbers(prior)) + 1

(* C20: a continuation persists the chapter, then advances updated_at of   *)
(* the story, then returns the chapter: in the step in which the new       *)
(* chapter is sent, the chapter is in the table and the row of the story,  *)
(* if the story is still there, carries the time of that step as           *)
(* updated_at.                                                             *)
C20_TouchedBeforeReturned ==
    [][\A p \in Procs :
          (/\ req'[p].op = "continue"
           /\ resp'[p].status = 200
           /\ resp[p] # resp'[p])
          => /\ \E c \in chapters' : c.id = resp'[p].body.id
             /\ \A r \in stories' : r.id = req'[p].id => r.updated_at = now']_vars

(* C21: in every state the story that a chapter names as its owner has a   *)
(* row in the stories table.                                               *)
C21_NoOrphanChapters ==
    \A c \in chapters : \E r \in stories : r.id = c.story_id

(* C22: a chapter row stays in the table as it is, unless the step is the  *)
(* DELETE FROM chapters of a deleteStory request for its story, which      *)
(* takes all chapters of that story; a step adds at most one row, with a   *)
(* new id, and only as the INSERT of a continuation of that story; and no  *)
(* step of a list, create, read, verify, setPassword or removePassword     *)
(* request changes the chapters table.                                     *)
C22_ChaptersImmutable ==
    [][/\ \A c \in chapters :
             \/ c \in chapters'
             \/ \E p \in Procs :
                   /\ Arrives(p, "delete")
                   /\ req'[p].id = c.story_id
                   /\ chapters' = chapters \ ChaptersOf(c.story_id)
       /\ Cardinality(chapters' \ chapters) <= 1
       /\ \A c \in chapters' \ chapters :
             /\ \A d \in chapters : d.id # c.id
             /\ \E p \in Procs :
                   /\ pc[p] = "continue_insert"
                   /\ pc'[p] = "continue_touch"
                   /\ req[p].id = c.story_id
       /\ \A p \in Procs :
             (/\ pc'[p] # pc[p]
              /\ req'[p].op \in {"list", "create", "get", "verify",
                                  "setPassword", "removePassword"})
             => chapters' = chapters]_vars

C22_Witness ==
    \E p \in Procs :
        /\ pc[p] = "continue_touch"
        /\ \E c \in chapters :
              /\ c.id # resp[p].body.id
              /\ c.story_id = req[p].id
              /\ c.chapter_number = resp[p].body.chapter_number
        /\ \E c \in chapters : c.id = resp[p].body.id
        /\ Protected(SelectStory(req[p].id))

(* C23: for every secret s and salt, verifyPassword(s, hashPassword(s))    *)
(* is true and verifyPassword(t, hashPassword(s)) is false for every other *)
(* secret t; against no hash verifyPassword is false for every secret, the *)
(* absent one included, and does not throw; and the same holds of every    *)
(* hash a setPassword request stored: exactly the secrets it was made from *)
(* verify, and a removePassword request ends without response only for an  *)
(* absent secret against a stored hash.                                    *)
C23_HashThenVerify ==
    /\ \A s \in CodecSecrets, salt \in CodecSalts :
          /\ verifyPassword(s, hashPassword(s, salt))
          /\ ~verifyThrows(s, hashPassword(s, salt))
          /\ \A t \in CodecSecrets \ {s} : ~verifyPassword(t, hashPassword(s, salt))
    /\ \A s \in CodecSecrets \cup {Absent} :
          /\ ~verifyPassword(s, NullHash)
          /\ ~verifyThrows(s, NullHash)
    /\ \A r \in stories :
          r.password_hash # NullHash =>
              \A t \in CodecSecrets :
                  verifyPassword(t, r.password_hash)
                      <=> (\E salt \in CodecSalts : r.password_hash = hashPassword(t, salt))
    /\ \A p \in Procs :
          (Answered(p, "removePassword") /\ resp[p] = ConnectionLost)
          => /\ req[p].password = Absent
             /\ SelectStory(req[p].id).password_hash # NullHash

C23_Witness ==
    \E p \in Procs :
        /\ Answered(p, "verify")
        /\ resp[p] = InvalidPassword
        /\ req[p].password = "abcD"
        /\ SelectStory(req[p].id).password_hash = hashPassword("abcd", "s2")
        /\ verifyPassword("abcd", SelectStory(req[p].id).password_hash)

\* a database call of the continuation of slot p fails in the step
StoreFails(p) ==
    /\ req'[p].op = "continue"
    /\ pc'[p] # pc[p]
    /\ caught'[p] = SqliteError \/ resp'[p] = DatabaseError

(* C24: when the read of the story, the read of the chapters or the INSERT *)
(* of a continuation fails, the request ends in that step with status 500  *)
(* and a body that holds an error message only; nothing is sent to the     *)
(* generation API any more, no chapter row is added, and no story row      *)
(* changes, the timestamp after a failed INSERT included.                  *)
C24_StoreFailureIsFinal ==
    [][\A p \in Procs :
          StoreFails(p) =>
              /\ pc'[p] = "done"
              /\ resp'[p].status = 500
              /\ DOMAIN resp'[p].body = {"error"}
              /\ \A i \in 1..Len(calls'[p]) : calls'[p][i].outcome # "pending"
              /\ Len(calls'[p]) = Len(calls[p])
              /\ chapters' = chapters
              /\ stories' = stories]_vars

C24_Witness ==
    \E p \in Procs :
        /\ Answered(p, "continue")
        /\ resp[p] = DatabaseError
        /\ Len(calls[p]) = 2
        /\ now = 1
        /\ \A r \in stories : r.updated_at = 0
        /\ ChaptersOf(req[p].id) = {}

\* the chapter numbers on the lines of the context slot p sent
Shown(p) ==
    {calls[p][1].arg.lines[i].chapter_number : i \in 1..Len(calls[p][1].arg.lines)}

(* C25: the chapters a continuation loaded stay as loaded from the content *)
(* call to the INSERT, whatever happens to the table meanwhile, and the    *)
(* chapter it persists and returns has the number 1 + the highest chapter  *)
(* number on the lines of the context it sent, or 1 when the context has   *)
(* no line.                                                                *)
C25_NumberFromContextSnapshot ==
    [][\A p \in Procs :
          /\ (/\ pc[p] \in {"continue_content", "continue_summary"}
              /\ pc'[p] \in {"continue_summary", "continue_insert"})
             => snap'[p] = snap[p]
          /\ (pc[p] = "continue_insert" /\ pc'[p] = "continue_touch")
             => /\ resp'[p].body.chapter_number =
                      IF Shown(p) = {} THEN 1 ELSE Max(Shown(p)) + 1
                /\ \E c \in chapters' \ chapters :
                      /\ c.id = resp'[p].body.id
                      /\ c.chapter_number = resp'[p].body.chapter_number]_vars

C25_Witness ==
    \E p \in Procs :
        /\ pc[p] = "continue_touch"
        /\ Shown(p) = {}
        /\ resp[p].body.chapter_number = 1
        /\ \E c \in ChaptersOf(req[p].id) : c.id < resp[p].body.id

\* the row is there, without protection and without a hash
Open(row) == row # NoRow /\ row.is_protected = 0 /\ row.password_hash = NullHash

(* C26: with one request at a time: setPassword with a secret of 4 or more *)
(* characters on an unprotected story answers 200 and stores a hash made   *)
(* from it; removePassword with the secret the hash was made from goes on  *)
(* to its UPDATE, which answers 200 and leaves the row without flag and    *)
(* without hash, every other column but updated_at and every chapter as    *)
(* they were (each unless the database call fails); a read and a           *)
(* continuation without secret are granted on a story in that state; and   *)
(* removePassword on an unprotected story answers 401 Invalid password for *)
(* every secret, given or not, and changes no story.                       *)
C26_ProtectionRoundTrip ==
    [][\A p \in Procs :
          LET row == SelectStory(req'[p].id)
              secret == req'[p].password
          IN
          /\ (Arrives(p, "setPassword") /\ Open(row) /\ ValidNewPassword(secret))
             => \/ resp'[p] = DatabaseError /\ stories' = stories
                \/ /\ resp'[p].status = 200
                   /\ chapters' = chapters
                   /\ \E r \in stories' :
                         /\ r.id = row.id
                         /\ r.is_protected = 1
                         /\ MadeFrom(secret, r.password_hash)
          /\ (/\ Arrives(p, "removePassword")
              /\ Protected(row)
              /\ secret # Absent
              /\ MadeFrom(secret, row.password_hash))
             => \/ pc'[p] = "remove_update" /\ stories' = stories
                \/ resp'[p] = DatabaseError /\ stories' = stories
          /\ (pc[p] = "remove_update" /\ pc'[p] = "done")
             => \/ resp'[p] = DatabaseError /\ stories' = stories
                \/ /\ resp'[p].status = 200
                   /\ chapters' = chapters
                   /\ stories' = {IF r.id = req[p].id
                                  THEN [r EXCEPT !.password_hash = NullHash,
                                                 !.is_protected = 0,
                                                 !.updated_at = now]
                                  ELSE r : r \in stories}
                   /\ Open(SelectStory(req[p].id))'
          /\ (Arriving(p) /\ Open(row) /\ secret = Absent)
             => /\ req'[p].op = "get" =>
                      (pc'[p] = "get_chapters" \/ resp'[p] = DatabaseError)
                /\ req'[p].op = "continue" =>
                      (pc'[p] = "continue_chapters" \/ caught'[p] = SqliteError)
          /\ (Arrives(p, "removePassword") /\ Open(row))
             => /\ pc'[p] = "done"
                /\ resp'[p] \in {InvalidPassword, DatabaseError}
                /\ stories' = stories]_vars

C26_Witness ==
    \E p \in Procs :
        /\ Answered(p, "removePassword")
        /\ resp[p].status = 200
        /\ req[p].password = "abcd"
        /\ Open(SelectStory(req[p].id))
        /\ Cardinality(ChaptersOf(req[p].id)) = 2
        /\ now = 1
        /\ SelectStory(req[p].id).updated_at = 1

\* the access check of the chapters route on a loaded row
Granted(password, row) ==
    row.is_protected = 0 \/ verifyPassword(password, row.password_hash)

(* C27: a continuation gets past its access check only in the step in      *)
(* which it loads the story row, and only when that row is unprotected or  *)
(* its secret verifies against that row's hash; every later stage of it is *)
(* reached from the stage before; at the INSERT the chapter is persisted,  *)
(* unless the INSERT fails, whatever protection the story has by then; and *)
(* every chapter row is added by a continuation at that stage.             *)
C27_GateOncePerRequest ==
    [][\A p \in Procs :
          LET row == SelectStory(req'[p].id) IN
          /\ (pc'[p] = "continue_chapters" /\ pc[p] # "continue_chapters")
             => /\ Arrives(p, "continue")
                /\ row # NoRow
                /\ Granted(req'[p].password, row)
                /\ story'[p] = Heading(row)
          /\ (pc'[p] = "continue_content" /\ pc[p] # "continue_content")
             => pc[p] = "continue_chapters" /\ req'[p] = req[p]
          /\ (pc'[p] = "continue_summary" /\ pc[p] # "continue_summary")
             => pc[p] = "continue_content" /\ req'[p] = req[p]
          /\ (pc'[p] = "continue_insert" /\ pc[p] # "continue_insert")
             => pc[p] = "continue_summary" /\ req'[p] = req[p]
          /\ (/\ pc[p] = "continue_insert"
              /\ pc'[p] # "continue_insert"
              /\ resp'[p] \notin {DatabaseError, ConnectionLost})
             => /\ resp'[p].status = 200
                /\ \E c \in chapters' \ chapters :
                      c.id = resp'[p].body.id /\ c.story_id = req[p].id
          /\ \A c \in chapters' \ chapters :
                \E q \in Procs : pc[q] = "continue_insert" /\ req[q].id = c.story_id]_vars

C27_Witness ==
    \E p \in Procs :
        /\ pc[p] = "continue_touch"
        /\ resp[p].status = 200
        /\ \E c \in chapters : c.id = resp[p].body.id
        /\ Protected(SelectStory(req[p].id))
        /\ req[p].password = "abcd"
        /\ MadeFrom("wxyz", SelectStory(req[p].id).password_hash)

(* C28: setPassword on a protected story, with any new secret of 4 or     *)
(* more characters and nothing else in the request, answers 200 unless the *)
(* UPDATE fails: the row stays protected, its hash is replaced by one the  *)
(* new secret verifies against and no other secret does, and nothing else  *)
(* but updated_at changes.                                                 *)
C28_SetPasswordReplacesUnchecked ==
    [][\A p \in Procs :
          LET row == SelectStory(req'[p].id)
              secret == req'[p].password
          IN
          (Arrives(p, "setPassword") /\ Protected(row) /\ ValidNewPassword(secret))
          => /\ pc'[p] = "done"
             /\ \/ resp'[p] = DatabaseError /\ stories' = stories
                \/ /\ resp'[p].status = 200
                   /\ \E r \in stories' :
                         /\ stories' = (stories \ {row}) \cup {r}
                         /\ r = [row EXCEPT !.password_hash = r.password_hash,
                                            !.updated_at = now]
                         /\ r.is_protected = 1
                         /\ verifyPassword(secret, r.password_hash)
                         /\ \A old \in Passwords \ {Absent, secret} :
                               ~verifyPassword(old, r.password_hash)]_vars

C28_Witness ==
    \E p, q \in Procs :
        /\ Answered(p, "setPassword")
        /\ resp[p].status = 200
        /\ req[p].password = "wxyz"
        /\ pc[q] = "remove_update"
        /\ req[q].id = req[p].id
        /\ req[q].password = "abcd"
        /\ verifyPassword("wxyz", SelectStory(req[p].id).password_hash)
        /\ ~verifyPassword("abcd", SelectStory(req[p].id).password_hash)

(* C29: a delete request carries no secret, and for a protected story it  *)
(* first removes every chapter of the story, leaving the story row, then   *)
(* removes the story row and answers 200; it answers 500 instead when a    *)
(* DELETE fails, and never 401.                                            *)
C29_DeleteSkipsGate ==
    [][\A p \in Procs :
          /\ (Arrives(p, "delete") /\ Protected(SelectStory(req'[p].id)))
             => /\ req'[p].password = Absent
                /\ stories' = stories
                /\ \/ /\ pc'[p] = "delete_story"
                      /\ resp'[p] = NoResp
                      /\ chapters' = chapters \ ChaptersOf(req'[p].id)
                   \/ /\ pc'[p] = "done"
                      /\ resp'[p] = DatabaseError
                      /\ chapters' = chapters
          /\ (/\ pc[p] = "delete_story"
              /\ pc'[p] # "delete_story"
              /\ resp'[p] # ConnectionLost)
             => /\ pc'[p] = "done"
                /\ chapters' = chapters
                /\ \/ /\ resp'[p] = Json(200, [message |-> "Story deleted successfully"])
                      /\ stories' = {r \in stories : r.id # req[p].id}
                   \/ /\ resp'[p] = DatabaseError
                      /\ stories' = stories]_vars

C29_Witness ==
    \E p, q \in Procs :
        /\ pc[p] = "delete_story"
        /\ req[p].password = Absent
        /\ Protected(SelectStory(req[p].id))
        /\ pc[q] = "continue_touch"
        /\ resp[q].body.story_id = req[p].id
        /\ \A c \in chapters : c.id # resp[q].body.id

(* C30: when every database call and every call of the generation API    *)
(* returns, a continuation request that has arrived ends with a response   *)
(* out: the new chapter (200), 404, 401 or 500, also for an absent secret  *)
(* on a protected story; and a response that is out is never replaced by   *)
(* another before the request is closed.                                   *)
C30_ContinueAnswersOnce ==
    /\ \A p \in Procs :
          (req[p].op = "continue")
             ~> (/\ pc[p] = "done"
                 /\ req[p].op = "continue"
                 /\ resp[p] # NoResp
                 /\ resp[p].status \in {200, 404, 401, 500})
    /\ [][\A p \in Procs :
             (req[p].op = "continue" /\ resp[p] # NoResp)
             => \/ resp'[p] = resp[p]
                \/ pc[p] = "done" /\ pc'[p] = "idle" /\ resp'[p] = NoResp]_vars

C30_Witness ==
    \E p \in Procs :
        /\ Answered(p, "continue")
        /\ Protected(SelectStory(req[p].id))
        /\ req[p].password = Absent
        /\ caught[p] = TypeError
        /\ resp[p] = GenerateFailed

====
